---- MODULE Spec2Model ----
\* GCP control-plane MCP server: the tool listing, the tool-call handler with
\* its session state (activeProjectId), the project resolver (ensureProject),
\* the permission gate (IAMService.verifyPermissions) and the provider
\* services the handler calls.  A tool call is a JavaScript async function:
\* every action below runs one call from one suspension point (await) to the
\* next, so calls interleave exactly at their provider requests.
EXTENDS Integers, Sequences, FiniteSets, TLC

\* ------------------------------------------------------------------ bounds
\* Number of distinct project identifiers the client and the environment use.
NumProjects == 2

\* Largest number of recommendations one recommender answers with.
MaxRecommendations == 2

ProjectIds == { "proj-" \o ToString(i) : i \in 1..NumProjects }

\* Call slots: requests the transport has dispatched and not yet answered.
\* A request takes the first free slot.
Calls == {1, 2}

\* ------------------------------------------------------- JavaScript values
\* An optional argument that was not supplied.
Undefined == "undefined"

\* JavaScript truthiness of an optional string: undefined and "" are falsy.
Truthy(s) == s # Undefined /\ s # ""

\* a || b
OrElse(a, b) == IF Truthy(a) THEN a ELSE b

\* message.includes(token): messages are sequences of text fragments.
Includes(message, token) == \E i \in 1..Len(message) : message[i] = token

\* ------------------------------------------------------------ message texts
CredsText == "Could not load the default credentials"

NoProjectMessage ==
    <<"No project selected. Please run 'list_projects' and then 'set_active_project' to choose a project to work with.">>

ProjectRequiredMessage == <<"Project ID is required for permission check.">>

SafetyMessage == <<"Safety check: Production deployment requires explicit approval flag.">>

GceRestartMessage == <<"Restart not directly supported for GCE via this tool. Use stop then start.">>

RunOnlyRestartMessage == <<"Only 'restart' action is supported for Cloud Run services via this tool.">>

AuthFailedText ==
    <<"Error: GCP Authentication failed. Please run 'gcloud auth application-default login' on your machine to authenticate the MCP server.">>

UnknownToolMessage(name) == <<"Unknown tool: ", name>>

ValidationMessage == <<"ZodError">>

\* Variant of ensureProject that prefers the session to the argument.
ensureProjectSessionFirst(projectArg, active) ==
    LET target == OrElse(active, projectArg)
    IN  IF ~Truthy(target)
        THEN [threw |-> TRUE, value |-> Undefined, message |-> NoProjectMessage]
        ELSE [threw |-> FALSE, value |-> target, message |-> <<>>]

\* ------------------------------------------------------- project resolution
\* ensureProject(projectArg) against the session value `active`.
ensureProject(projectArg, active) ==
    LET target == OrElse(projectArg, active)
    IN  IF ~Truthy(target)
        THEN [threw |-> TRUE, value |-> Undefined, message |-> NoProjectMessage]
        ELSE [threw |-> FALSE, value |-> target, message |-> <<>>]

\* ---------------------------------------------------------- permission gate
CapabilityNames == <<"health", "cost", "deployment", "billing">>

REQUIRED_PERMISSIONS ==
    [ health     |-> <<"monitoring.timeSeries.list">>,
      cost       |-> <<"bigquery.jobs.create", "bigquery.tables.list">>,
      deployment |-> <<"cloudbuild.builds.list">>,
      billing    |-> <<"resourcemanager.projects.get">> ]

RECURSIVE Flat(_)
\* Array.prototype.flat over a sequence of sequences.
Flat(ss) == IF ss = <<>> THEN <<>> ELSE Head(ss) \o Flat(Tail(ss))

\* Variant of allPermissions that asks for the first permission of each
\* group only.
allPermissionsFirstOfGroup ==
    [ i \in 1..Len(CapabilityNames) |-> REQUIRED_PERMISSIONS[CapabilityNames[i]][1] ]

\* Object.values(...) lists the groups in declaration order.
allPermissions ==
    Flat([ i \in 1..Len(CapabilityNames) |-> REQUIRED_PERMISSIONS[CapabilityNames[i]] ])

Range(s) == { s[i] : i \in 1..Len(s) }

\* perms.every(p => grantedSet.has(p))
Every(perms, grantedSet) == \A i \in 1..Len(perms) : perms[i] \in grantedSet

RECURSIVE Filter(_, _)
\* allPermissions.filter(p => !grantedSet.has(p))
Filter(perms, grantedSet) ==
    IF perms = <<>> THEN <<>>
    ELSE IF Head(perms) \notin grantedSet
         THEN <<Head(perms)>> \o Filter(Tail(perms), grantedSet)
         ELSE Filter(Tail(perms), grantedSet)

\* perms.some(p => grantedSet.has(p))
Some(perms, grantedSet) == \E i \in 1..Len(perms) : perms[i] \in grantedSet

\* Variant of capabilities with ANY semantics.
capabilitiesAny(grantedSet) ==
    [ health     |-> Some(REQUIRED_PERMISSIONS.health, grantedSet),
      cost       |-> Some(REQUIRED_PERMISSIONS.cost, grantedSet),
      deployment |-> Some(REQUIRED_PERMISSIONS.deployment, grantedSet),
      billing    |-> Some(REQUIRED_PERMISSIONS.billing, grantedSet) ]

capabilities(grantedSet) ==
    [ health     |-> Every(REQUIRED_PERMISSIONS.health, grantedSet),
      cost       |-> Every(REQUIRED_PERMISSIONS.cost, grantedSet),
      deployment |-> Every(REQUIRED_PERMISSIONS.deployment, grantedSet),
      billing    |-> Every(REQUIRED_PERMISSIONS.billing, grantedSet) ]

Reverse(seq) == [ i \in 1..Len(seq) |-> seq[Len(seq) + 1 - i] ]

\* Variant of missingPermissions that does not keep the declaration order.
missingPermissionsReversed(grantedSet) == Reverse(Filter(allPermissions, grantedSet))

missingPermissions(grantedSet) == Filter(allPermissions, grantedSet)

\* The PermissionReport verifyPermissions returns for a granted set.
PermissionReport(targetProject, grantedSet) ==
    [ projectId          |-> targetProject,
      capabilities       |-> capabilities(grantedSet),
      missingPermissions |-> missingPermissions(grantedSet) ]

\* Variant of ToolListing: the listing of the earlier revision, which knows
\* seven tools.
ToolListingEarlier ==
    << "list_projects", "set_active_project", "get_service_health",
       "get_cloud_cost_breakdown", "trigger_deployment",
       "get_ci_pipeline_status", "test_iam_identity" >>

\* ------------------------------------------------------------- tool catalog
\* The names the tool listing returns, in listing order.
ToolListing ==
    << "list_projects", "set_active_project", "test_iam_identity",
       "get_service_health", "get_cloud_cost_breakdown", "trigger_deployment",
       "get_ci_pipeline_status", "explore_logs", "manage_resource",
       "audit_security_findings", "get_optimization_recommendations",
       "check_quota_status", "generate_architecture_diagram" >>

\* The case labels of the call handler's switch.
SwitchCases ==
    { "get_service_health", "get_cloud_cost_breakdown", "trigger_deployment",
      "get_ci_pipeline_status", "explore_logs", "manage_resource",
      "audit_security_findings", "get_optimization_recommendations",
      "check_quota_status", "generate_architecture_diagram" }

\* The branch of the call handler a tool name runs: the three if-branches
\* first, then the switch with its default.
HandlerOf(name) ==
    IF name = "list_projects" THEN "list_projects"
    ELSE IF name = "set_active_project" THEN "set_active_project"
    ELSE IF name = "test_iam_identity" THEN "test_iam_identity"
    ELSE IF name \in SwitchCases THEN name
    ELSE "default"

\* Names a client may send that the server does not know.
UnknownNames == { "frobnicate", CredsText }

RequestNames == Range(ToolListing) \cup UnknownNames

\* ------------------------------------------------------------------ state
VARIABLES
    activeProjectId,   \* Session State: let activeProjectId
    calls,             \* per slot: the call being served, its locals and answer
    defaultProject,    \* GCP_CONFIG.DEFAULT_PROJECT_ID of this process
    lastSelected,      \* history: projectId of the last set_active_project that returned normally
    pipelined,         \* whether the client sends requests without waiting for the response
    verifiedProjects,  \* history: projects verifyPermissions has returned a report for
    metrics,           \* HealthService: the HealthMetrics handed to computeHealthScore
    health             \* HealthService: the score and the status computed from metrics

vars == << activeProjectId, calls, defaultProject, lastSelected, pipelined, verifiedProjects,
          metrics, health >>

\* --------------------------------------------------------------- requests
\* The project argument of a request: absent, empty or a project id; absent
\* or a project id when calls overlap.
OptionalProjects ==
    IF pipelined THEN { Undefined } \cup ProjectIds
    ELSE { Undefined, "" } \cup ProjectIds

\* The arguments of a request.  wellFormed is whether the payload passes the
\* tool's zod schema (every required field present, every field well typed);
\* fields a tool's schema does not declare are stripped by parse.
NoArgs ==
    [ wellFormed |-> TRUE, project |-> Undefined, projectId |-> Undefined,
      service |-> Undefined, approval |-> FALSE,
      resourceType |-> Undefined, action |-> Undefined ]

ArgsOf(name) ==
    IF name = "list_projects" THEN { NoArgs }
    ELSE IF name = "set_active_project"
    THEN { [NoArgs EXCEPT !.projectId = p] : p \in ProjectIds \cup {""} }
         \cup { [NoArgs EXCEPT !.wellFormed = FALSE] }
    ELSE IF name = "trigger_deployment"
    THEN { [NoArgs EXCEPT !.project = p, !.service = s, !.approval = a] :
             p \in OptionalProjects, s \in {"payments-api", ""}, a \in BOOLEAN }
         \cup { [NoArgs EXCEPT !.wellFormed = FALSE, !.project = p] : p \in OptionalProjects }
    ELSE IF name = "manage_resource"
    THEN { [NoArgs EXCEPT !.project = p, !.resourceType = t, !.action = a] :
             p \in OptionalProjects, t \in {"gce", "run"},
             a \in {"start", "stop", "restart"} }
         \cup { [NoArgs EXCEPT !.wellFormed = FALSE, !.project = p] : p \in OptionalProjects }
    ELSE { [NoArgs EXCEPT !.project = p, !.wellFormed = w] :
             p \in OptionalProjects, w \in BOOLEAN }

\* A JavaScript number: a finite value, or NaN, Infinity or -Infinity.
Finite(v) == [ kind |-> "finite", v |-> v ]
NaN == [ kind |-> "NaN", v |-> 0 ]
PlusInfinity == [ kind |-> "Infinity", v |-> 0 ]
MinusInfinity == [ kind |-> "-Infinity", v |-> 0 ]

\* No metrics have been fetched, nothing has been computed.
NoMetrics == [ cpuUsage |-> NaN, errorRate |-> NaN, latencyP95 |-> NaN, podHealth |-> NaN ]
NoHealth == [ pc |-> "metrics", score |-> NaN, earlier |-> NaN, status |-> "" ]

\* Messages a provider library raises when a request fails: missing
\* credentials, a denial, an outage; the outage alone when calls overlap.
ProviderFailures ==
    IF pipelined THEN { <<"UNAVAILABLE">> }
    ELSE { <<CredsText>>, <<"PERMISSION_DENIED">>, <<"UNAVAILABLE">> }

NoResponse == [ isError |-> FALSE, text |-> <<>>, result |-> <<>> ]

\* A free slot.
IdleCall ==
    [ pc            |-> "idle",
      name          |-> "",
      args          |-> NoArgs,
      handler       |-> "",          \* branch of the call handler taken
      targetProject |-> Undefined,   \* const targetProject of the handler
      iamProject    |-> Undefined,   \* projectId parameter of verifyPermissions
      iamTarget     |-> Undefined,   \* const targetProject of verifyPermissions
      iamPermissions |-> <<>>,       \* permissions of the testIamPermissions request
      granted       |-> {},          \* history: permissions the batch check returned
      verified      |-> FALSE,       \* history: verifyPermissions returned a report
      step          |-> 0,           \* position in a service's sequence of requests
      results       |-> <<>>,        \* results accumulated by a service
      invoked       |-> <<>>,        \* provider requests issued, in order
      categories    |-> <<>>,        \* history: recommenders asked and what each answered
      providerError |-> <<>>,        \* history: message a provider request of the call failed with
      raised        |-> <<>>,        \* history: message of the error the catch block received
      activeAtStart |-> "",          \* history: activeProjectId when the call arrived
      resp          |-> NoResponse ]

\* process.env.GOOGLE_CLOUD_PROJECT || "" : a project or none.  Project ids are
\* interchangeable, so one of them stands for any configured default.
Init ==
    /\ defaultProject \in { "", "proj-1" }
    /\ activeProjectId = defaultProject
    /\ calls = [ c \in Calls |-> IdleCall ]
    /\ lastSelected = Undefined
    /\ pipelined \in BOOLEAN
    /\ verifiedProjects = {}
    /\ metrics = NoMetrics
    /\ health = NoHealth

\* ------------------------------------------------- the handler's outcomes
\* return { content: [{ type: "text", text }] }
Returned(call, text, result) ==
    [ call EXCEPT !.pc = "done",
                  !.resp = [ isError |-> FALSE, text |-> text, result |-> result ] ]

\* Variant of Caught for a handler that parses the arguments before its try
\* block: a validation error leaves the handler as a rejection.
CaughtAfterParse(call, message) ==
    IF message = ValidationMessage
    THEN [ call EXCEPT !.pc = "rejected", !.raised = message ]
    ELSE [ call EXCEPT !.pc = "done",
                       !.raised = message,
                       !.resp = [ isError |-> TRUE,
                                  text    |-> IF Includes(message, CredsText)
                                              THEN AuthFailedText
                                              ELSE <<"Error: ">> \o message,
                                  result  |-> <<>> ] ]

\* The catch block of the call handler, for an error with this message.
Caught(call, message) ==
    [ call EXCEPT !.pc = "done",
                  !.raised = message,
                  !.resp = [ isError |-> TRUE,
                             text    |-> IF Includes(message, CredsText)
                                         THEN AuthFailedText
                                         ELSE <<"Error: ">> \o message,
                             result  |-> <<>> ] ]

\* The provider library rejects the request the call is suspended on with
\* an error of this message.
Failed(call, m) == [ call EXCEPT !.providerError = m ]

\* A request to a provider leaves the process; the call suspends at `label`.
Issue(call, op, project, label) ==
    [ call EXCEPT !.pc = label,
                  !.invoked = Append(@, [ op |-> op, project |-> project ]) ]

\* A request arrives in a free slot.
Arrived(name, args) ==
    [ IdleCall EXCEPT !.name = name, !.args = args, !.handler = HandlerOf(name),
                      !.activeAtStart = activeProjectId ]

Update(c, call) == calls' = [ calls EXCEPT ![c] = call ]

\* The handler's return value is handed to the transport in the same turn of
\* the event loop, before any other request or provider answer is processed.
NoneDone == \A d \in Calls : calls[d].pc # "done"

\* The transport hands a request with this name to the call handler: it takes
\* the first free slot.  A client that does not pipeline waits for the
\* response first; of two overlapping calls one is a set_active_project (no
\* other call writes the session, and the functional tools read it on
\* arrival only).
Accepts(c, name) ==
    /\ calls[c].pc = "idle"
    /\ NoneDone
    /\ \A d \in Calls : d < c => calls[d].pc # "idle"
    /\ \A d \in Calls :
          calls[d].pc # "idle" =>
             pipelined /\ "set_active_project" \in { name, calls[d].name }

\* A request for the tool of this name arrives and is dispatched to its branch.
Arrives(c, name) == Accepts(c, name) /\ HandlerOf(name) = name

\* The provider request the call is suspended on is answered.
Resumes(c, label) == NoneDone /\ calls[c].pc = label

\* The granted sets the batch check answers with: every subset of the
\* permissions asked for; all or none of them when calls overlap.
GrantedSets ==
    IF pipelined THEN { {}, Range(allPermissions) }
    ELSE SUBSET Range(allPermissions)

\* Variant of CallListProjects that asks for a selected project first, as
\* the functional tools do.
CallListProjectsGated(c) ==
    /\ Arrives(c, "list_projects")
    /\ LET call == Arrived("list_projects", NoArgs)
           resolved == ensureProject(Undefined, activeProjectId)
       IN  Update(c, IF resolved.threw
                     THEN Caught(call, resolved.message)
                     ELSE Issue(call, "searchProjects", Undefined, "searchProjects"))
    /\ UNCHANGED << activeProjectId, defaultProject, lastSelected, pipelined, metrics, health, verifiedProjects >>

\* ------------------------------------------------------------ list_projects
\* if (name === "list_projects"): iamService.listProjects() sends
\* searchProjects and the handler suspends.
CallListProjects(c) ==
    /\ Arrives(c, "list_projects")
    /\ Update(c, Issue(Arrived("list_projects", NoArgs),
                       "searchProjects", Undefined, "searchProjects"))
    /\ UNCHANGED << activeProjectId, defaultProject, lastSelected, pipelined, metrics, health, verifiedProjects >>

\* searchProjects answers: listProjects wraps a failure; on success the
\* handler serialises activeProjectId || "NONE" as it is now.
ListProjectsResume(c) ==
    /\ Resumes(c, "searchProjects")
    /\ \/ \E m \in ProviderFailures :
            Update(c, Caught(Failed(calls[c], m), <<"GCP Resource Manager Error: ">> \o m))
       \/ Update(c, Returned(calls[c], <<"json">>,
                    [ activeProjectId |-> OrElse(activeProjectId, "NONE") ]))
    /\ UNCHANGED << activeProjectId, defaultProject, lastSelected, pipelined, metrics, health, verifiedProjects >>

\* -------------------------------------------------------- verifyPermissions
\* verifyPermissions(projectId) up to its first await: getIdentity().
verifyPermissions(call, projectId) ==
    Issue([ call EXCEPT !.iamProject = projectId ],
          "getIdentity", Undefined, "getIdentity")

\* getIdentity answers.  It is awaited outside verifyPermissions' try, so its
\* failure reaches the handler unwrapped.  Otherwise the target is
\* projectId || identity.projectId, and the batch check is sent for it.
GetIdentityResume(c) ==
    /\ Resumes(c, "getIdentity")
    /\ \/ \E m \in ProviderFailures : Update(c, Caught(Failed(calls[c], m), m))
       \/ \E identityProject \in ProjectIds \cup {""} :
            LET targetProject == OrElse(calls[c].iamProject, identityProject)
            IN  Update(c, IF ~Truthy(targetProject)
                          THEN Caught(calls[c], ProjectRequiredMessage)
                          ELSE Issue([ calls[c] EXCEPT !.iamTarget = targetProject,
                                                       !.iamPermissions = allPermissions ],
                                     "testIamPermissions", targetProject,
                                     "testIamPermissions"))
    /\ UNCHANGED << activeProjectId, defaultProject, lastSelected, pipelined, metrics, health, verifiedProjects >>

\* Variant of SelectProject that refuses a project on which the identity has
\* no capability at all.
SelectProjectCapable(call) ==
    IF \E k \in DOMAIN capabilities(call.granted) : capabilities(call.granted)[k]
    THEN Returned(call, <<"Project context successfully set to: ", call.args.projectId>>, <<>>)
    ELSE Caught(call, <<"No capability on project ", call.args.projectId>>)

\* What set_active_project does once verifyPermissions has returned.
SelectProject(call) ==
    Returned(call, <<"Project context successfully set to: ", call.args.projectId>>, <<>>)

\* verifiedProjects once verifyPermissions has returned a report for
\* targetProject.  The history is kept for the reference behaviour, where
\* the properties that read it are checked.
Verified(targetProject) ==
    IF pipelined THEN verifiedProjects ELSE verifiedProjects \cup { targetProject }

\* Variant of TestIamPermissionsResume in which verifyPermissions treats an
\* empty granted set as a failure of the check.
TestIamPermissionsResumeDenied(c) ==
    /\ Resumes(c, "testIamPermissions")
    /\ \/ /\ \E m \in ProviderFailures :
                Update(c, Caught(Failed(calls[c], m), <<"GCP Resource Manager Error: ">> \o m))
          /\ UNCHANGED << activeProjectId, lastSelected, verifiedProjects >>
       \/ \E grantedSet \in GrantedSets :
            LET call == [ calls[c] EXCEPT !.granted = grantedSet, !.verified = TRUE ]
                report == PermissionReport(call.iamTarget, grantedSet)
            IN  IF grantedSet = {}
                THEN /\ Update(c, Caught(calls[c], <<"GCP Resource Manager Error: ",
                                                     "PERMISSION_DENIED">>))
                     /\ UNCHANGED << activeProjectId, lastSelected, verifiedProjects >>
                ELSE /\ verifiedProjects' = Verified(call.iamTarget)
                     /\ IF call.handler = "set_active_project"
                        THEN /\ activeProjectId' = call.args.projectId
                             /\ lastSelected' = call.args.projectId
                             /\ Update(c, SelectProject(call))
                        ELSE /\ Update(c, Returned(call, <<"json">>, report))
                             /\ UNCHANGED << activeProjectId, lastSelected >>
    /\ UNCHANGED << defaultProject, pipelined, metrics, health >>

\* Variant of TestIamPermissionsResume in which set_active_project answers
\* when verifyPermissions returns and leaves the write for later.
TestIamPermissionsResumeDeferred(c) ==
    /\ Resumes(c, "testIamPermissions")
    /\ \/ /\ \E m \in ProviderFailures :
                Update(c, Caught(Failed(calls[c], m), <<"GCP Resource Manager Error: ">> \o m))
          /\ UNCHANGED << activeProjectId, lastSelected, verifiedProjects >>
       \/ \E grantedSet \in GrantedSets :
            LET call == [ calls[c] EXCEPT !.granted = grantedSet, !.verified = TRUE ]
                report == PermissionReport(call.iamTarget, grantedSet)
            IN  /\ verifiedProjects' = Verified(call.iamTarget)
                /\ Update(c, IF call.handler = "set_active_project"
                             THEN SelectProject(call)
                             ELSE Returned(call, <<"json">>, report))
                /\ UNCHANGED << activeProjectId, lastSelected >>
    /\ UNCHANGED << defaultProject, pipelined, metrics, health >>

\* testIamPermissions answers with the granted permissions, or fails.
\* verifyPermissions returns the report to its caller: set_active_project
\* stores projectId and answers, test_iam_identity serialises the report.
TestIamPermissionsResume(c) ==
    /\ Resumes(c, "testIamPermissions")
    /\ \/ /\ \E m \in ProviderFailures :
                Update(c, Caught(Failed(calls[c], m), <<"GCP Resource Manager Error: ">> \o m))
          /\ UNCHANGED << activeProjectId, lastSelected, verifiedProjects >>
       \/ \E grantedSet \in GrantedSets :
            LET call == [ calls[c] EXCEPT !.granted = grantedSet, !.verified = TRUE ]
                report == PermissionReport(call.iamTarget, grantedSet)
            IN  /\ verifiedProjects' = Verified(call.iamTarget)
                /\ IF call.handler = "set_active_project"
                   THEN /\ activeProjectId' = call.args.projectId
                        /\ lastSelected' = call.args.projectId
                        /\ Update(c, SelectProject(call))
                   ELSE /\ Update(c, Returned(call, <<"json">>, report))
                        /\ UNCHANGED << activeProjectId, lastSelected >>
    /\ UNCHANGED << defaultProject, pipelined, metrics, health >>

\* Variant of CallSetActiveProject that stores the project before it is
\* verified.
CallSetActiveProjectUnverified(c) ==
    /\ Arrives(c, "set_active_project")
    /\ \E args \in ArgsOf("set_active_project") :
         LET call == Arrived("set_active_project", args)
         IN  /\ Update(c, IF ~args.wellFormed
                          THEN Caught(call, ValidationMessage)
                          ELSE verifyPermissions(call, args.projectId))
             /\ activeProjectId' = IF args.wellFormed THEN args.projectId
                                   ELSE activeProjectId
    /\ UNCHANGED << defaultProject, lastSelected, pipelined, metrics, health, verifiedProjects >>

\* ------------------------------------------------------- set_active_project
\* if (name === "set_active_project"): parse, then verify before setting.
CallSetActiveProject(c) ==
    /\ Arrives(c, "set_active_project")
    /\ \E args \in ArgsOf("set_active_project") :
         LET call == Arrived("set_active_project", args)
         IN  Update(c, IF ~args.wellFormed
                       THEN Caught(call, ValidationMessage)
                       ELSE verifyPermissions(call, args.projectId))
    /\ UNCHANGED << activeProjectId, defaultProject, lastSelected, pipelined, metrics, health, verifiedProjects >>

\* Variant of CallTestIamIdentity that resolves its project the way the
\* functional tools do, with ensureProject.
CallTestIamIdentityStrict(c) ==
    /\ Arrives(c, "test_iam_identity")
    /\ \E args \in ArgsOf("test_iam_identity") :
         LET call == Arrived("test_iam_identity", args)
             resolved == ensureProject(args.project, activeProjectId)
         IN  Update(c, IF ~args.wellFormed
                       THEN Caught(call, ValidationMessage)
                       ELSE IF resolved.threw
                       THEN Caught(call, resolved.message)
                       ELSE verifyPermissions([ call EXCEPT !.targetProject = resolved.value ],
                                              resolved.value))
    /\ UNCHANGED << activeProjectId, defaultProject, lastSelected, pipelined, metrics, health, verifiedProjects >>

\* -------------------------------------------------------- test_iam_identity
\* if (name === "test_iam_identity"): project || activeProjectId, then
\* verifyPermissions(targetProject || "").
CallTestIamIdentity(c) ==
    /\ Arrives(c, "test_iam_identity")
    /\ \E args \in ArgsOf("test_iam_identity") :
         LET call == Arrived("test_iam_identity", args)
             targetProject == OrElse(args.project, activeProjectId)
         IN  Update(c, IF ~args.wellFormed
                       THEN Caught(call, ValidationMessage)
                       ELSE verifyPermissions([ call EXCEPT !.targetProject = targetProject ],
                                              OrElse(targetProject, "")))
    /\ UNCHANGED << activeProjectId, defaultProject, lastSelected, pipelined, metrics, health, verifiedProjects >>

\* ------------------------------------------------------------ unknown tools
\* default: throw new Error(`Unknown tool: ${name}`)
CallUnknownTool(c) ==
    /\ \E name \in RequestNames :
         /\ HandlerOf(name) = "default"
         /\ Accepts(c, name)
         /\ Update(c, Caught(Arrived(name, NoArgs), UnknownToolMessage(name)))
    /\ UNCHANGED << activeProjectId, defaultProject, lastSelected, pipelined, metrics, health, verifiedProjects >>

\* The response has been sent; the slot is free again.
Respond(c) ==
    /\ calls[c].pc = "done"
    /\ Update(c, IdleCall)
    /\ UNCHANGED << activeProjectId, defaultProject, lastSelected, pipelined, metrics, health, verifiedProjects >>

\* --------------------------------------------------------- functional tools
\* Variant of Prepared as in the earlier revision of the handler:
\* project || activeProjectId, with no check that a project is selected.
PreparedUnchecked(name, args) ==
    LET call == Arrived(name, args)
    IN  IF ~args.wellFormed
        THEN [ ok |-> FALSE, call |-> Caught(call, ValidationMessage) ]
        ELSE [ ok |-> TRUE,
               call |-> [ call EXCEPT !.targetProject = OrElse(args.project, activeProjectId) ] ]

\* Variant of Prepared that resolves the project before it parses the
\* arguments.
PreparedResolveFirst(name, args) ==
    LET call == Arrived(name, args)
        resolved == ensureProject(args.project, activeProjectId)
    IN  IF resolved.threw
        THEN [ ok |-> FALSE, call |-> Caught(call, resolved.message) ]
        ELSE IF ~args.wellFormed
        THEN [ ok |-> FALSE, call |-> Caught(call, ValidationMessage) ]
        ELSE [ ok |-> TRUE, call |-> [ call EXCEPT !.targetProject = resolved.value ] ]

\* The first two statements of every case of the switch: Schema.parse(args)
\* and ensureProject(project).  ok is FALSE when one of them threw.
Prepared(name, args) ==
    LET call == Arrived(name, args)
        resolved == ensureProject(args.project, activeProjectId)
    IN  IF ~args.wellFormed
        THEN [ ok |-> FALSE, call |-> Caught(call, ValidationMessage) ]
        ELSE IF resolved.threw
        THEN [ ok |-> FALSE, call |-> Caught(call, resolved.message) ]
        ELSE [ ok |-> TRUE, call |-> [ call EXCEPT !.targetProject = resolved.value ] ]

\* A service method whose single request failed inside its try block:
\* catch (error) { throw new Error(`${prefix}${error.message}`) }
Wrapped(prefix, m) == <<prefix>> \o m

\* case "get_service_health": fetchMetrics sends the first of its three
\* time-series queries.
CallGetServiceHealth(c) ==
    /\ Arrives(c, "get_service_health")
    /\ \E args \in ArgsOf("get_service_health") :
         LET p == Prepared("get_service_health", args)
         IN  Update(c, IF ~p.ok THEN p.call
                       ELSE Issue([ p.call EXCEPT !.step = 1 ], "queryTimeSeries",
                                  p.call.targetProject, "fetchMetrics"))
    /\ UNCHANGED << activeProjectId, defaultProject, lastSelected, pipelined, metrics, health, verifiedProjects >>

\* One of fetchMetrics' queries (cpu, error rate, latency) answers; after
\* the third the handler scores the metrics and answers.
FetchMetricsResume(c) ==
    /\ Resumes(c, "fetchMetrics")
    /\ \/ \E m \in ProviderFailures :
            Update(c, Caught(Failed(calls[c], m), Wrapped("GCP Monitoring API Error: ", m)))
       \/ Update(c, IF calls[c].step < 3
                    THEN Issue([ calls[c] EXCEPT !.step = @ + 1 ], "queryTimeSeries",
                               calls[c].targetProject, "fetchMetrics")
                    ELSE Returned(calls[c], <<"json">>,
                                  [ project |-> calls[c].targetProject ]))
    /\ UNCHANGED << activeProjectId, defaultProject, lastSelected, pipelined, metrics, health, verifiedProjects >>

\* case "get_cloud_cost_breakdown": the billing status is requested first.
CallGetCloudCostBreakdown(c) ==
    /\ Arrives(c, "get_cloud_cost_breakdown")
    /\ \E args \in ArgsOf("get_cloud_cost_breakdown") :
         LET p == Prepared("get_cloud_cost_breakdown", args)
         IN  Update(c, IF ~p.ok THEN p.call
                       ELSE Issue(p.call, "getBillingAccountStatus",
                                  p.call.targetProject, "getBillingAccountStatus"))
    /\ UNCHANGED << activeProjectId, defaultProject, lastSelected, pipelined, metrics, health, verifiedProjects >>

\* What awaiting costService.getBillingAccountStatus(targetProject) ends in:
\* the method throws a provider error, or returns the billing status.
BillingStatusOutcomes ==
    { [ threw |-> TRUE, message |-> m ] : m \in ProviderFailures }
        \cup { [ threw |-> FALSE, message |-> <<>> ] }

\* Variant of BillingStatusResume that resolves the project again for the
\* cost query.
BillingStatusResumeReread(c) ==
    /\ Resumes(c, "getBillingAccountStatus")
    /\ \E o \in BillingStatusOutcomes :
         Update(c, IF o.threw
                   THEN Caught(Failed(calls[c], o.message), o.message)
                   ELSE Issue(calls[c], "bigquery.query",
                              ensureProject(calls[c].args.project, activeProjectId).value,
                              "fetchCostData"))
    /\ UNCHANGED << activeProjectId, defaultProject, lastSelected, pipelined, metrics, health, verifiedProjects >>

\* getBillingAccountStatus answers; then fetchCostData sends its query.
BillingStatusResume(c) ==
    /\ Resumes(c, "getBillingAccountStatus")
    /\ \E o \in BillingStatusOutcomes :
         Update(c, IF o.threw
                   THEN Caught(Failed(calls[c], o.message), o.message)
                   ELSE Issue(calls[c], "bigquery.query",
                              calls[c].targetProject, "fetchCostData"))
    /\ UNCHANGED << activeProjectId, defaultProject, lastSelected, pipelined, metrics, health, verifiedProjects >>

\* fetchCostData's query answers: a failure and an empty result are both
\* rethrown from its catch block.
FetchCostDataResume(c) ==
    /\ Resumes(c, "fetchCostData")
    /\ \/ \E m \in ProviderFailures :
            Update(c, Caught(Failed(calls[c], m), Wrapped("GCP BigQuery Error: ", m)))
       \/ \E rows \in 0..1 :
            Update(c, IF rows = 0
                      THEN Caught(calls[c], Wrapped("GCP BigQuery Error: ",
                               <<"No billing data found for project ",
                                 calls[c].targetProject, " in the last 30 days.">>))
                      ELSE Returned(calls[c], <<"json">>,
                                    [ project_id |-> calls[c].targetProject ]))
    /\ UNCHANGED << activeProjectId, defaultProject, lastSelected, pipelined, metrics, health, verifiedProjects >>

\* Variant of triggerDeployment as in the earlier revision of the service,
\* which does not look at the approval flag.
triggerDeploymentUnguarded(call, approval, projectId) ==
    Issue(call, "createBuild", projectId, "createBuild")

\* Variant of triggerDeployment whose approval check sits inside the try
\* block, so that the refusal is rethrown with the service's prefix.
triggerDeploymentWrapped(call, approval, projectId) ==
    IF ~approval
    THEN Caught(call, <<"GCP Cloud Build Error: ">> \o SafetyMessage)
    ELSE Issue(call, "createBuild", projectId, "createBuild")

\* DeploymentService.triggerDeployment up to its first await: the approval
\* check is outside the try block, the build request inside it.
triggerDeployment(call, approval, projectId) ==
    IF ~approval
    THEN Caught(call, SafetyMessage)
    ELSE Issue(call, "createBuild", projectId, "createBuild")

\* case "trigger_deployment"
CallTriggerDeployment(c) ==
    /\ Arrives(c, "trigger_deployment")
    /\ \E args \in ArgsOf("trigger_deployment") :
         LET p == Prepared("trigger_deployment", args)
         IN  Update(c, IF ~p.ok THEN p.call
                       ELSE triggerDeployment(p.call, args.approval, p.call.targetProject))
    /\ UNCHANGED << activeProjectId, defaultProject, lastSelected, pipelined, metrics, health, verifiedProjects >>

\* createBuild answers.
CreateBuildResume(c) ==
    /\ Resumes(c, "createBuild")
    /\ \/ \E m \in ProviderFailures :
            Update(c, Caught(Failed(calls[c], m), Wrapped("GCP Cloud Build Error: ", m)))
       \/ Update(c, Returned(calls[c], <<"json">>, [ environment |-> "production" ]))
    /\ UNCHANGED << activeProjectId, defaultProject, lastSelected, pipelined, metrics, health, verifiedProjects >>

\* Variant of CallGetCiPipelineStatus that does not pass the resolved project
\* on, so that the service falls back to GCP_CONFIG.DEFAULT_PROJECT_ID.
CallGetCiPipelineStatusDefault(c) ==
    /\ Arrives(c, "get_ci_pipeline_status")
    /\ \E args \in ArgsOf("get_ci_pipeline_status") :
         LET p == Prepared("get_ci_pipeline_status", args)
         IN  Update(c, IF ~p.ok THEN p.call
                       ELSE Issue(p.call, "listBuilds", defaultProject, "listBuilds"))
    /\ UNCHANGED << activeProjectId, defaultProject, lastSelected, pipelined, metrics, health, verifiedProjects >>

\* case "get_ci_pipeline_status"
CallGetCiPipelineStatus(c) ==
    /\ Arrives(c, "get_ci_pipeline_status")
    /\ \E args \in ArgsOf("get_ci_pipeline_status") :
         LET p == Prepared("get_ci_pipeline_status", args)
         IN  Update(c, IF ~p.ok THEN p.call
                       ELSE Issue(p.call, "listBuilds", p.call.targetProject, "listBuilds"))
    /\ UNCHANGED << activeProjectId, defaultProject, lastSelected, pipelined, metrics, health, verifiedProjects >>

\* listBuilds answers: an empty history is an error thrown inside the try.
ListBuildsResume(c) ==
    /\ Resumes(c, "listBuilds")
    /\ \/ \E m \in ProviderFailures :
            Update(c, Caught(Failed(calls[c], m), Wrapped("GCP Build History Error: ", m)))
       \/ \E builds \in 0..1 :
            Update(c, IF builds = 0
                      THEN Caught(calls[c], Wrapped("GCP Build History Error: ",
                               <<"No build history found for repo in project ",
                                 calls[c].targetProject>>))
                      ELSE Returned(calls[c], <<"json">>, <<>>))
    /\ UNCHANGED << activeProjectId, defaultProject, lastSelected, pipelined, metrics, health, verifiedProjects >>

\* Variant of CallExploreLogs that remembers the project it resolved as the
\* session's active project.
CallExploreLogsSticky(c) ==
    /\ Arrives(c, "explore_logs")
    /\ \E args \in ArgsOf("explore_logs") :
         LET p == Prepared("explore_logs", args)
         IN  /\ Update(c, IF ~p.ok THEN p.call
                          ELSE Issue(p.call, "getEntries", p.call.targetProject, "getEntries"))
             /\ activeProjectId' = IF p.ok THEN p.call.targetProject ELSE activeProjectId
    /\ UNCHANGED << defaultProject, lastSelected, pipelined, metrics, health, verifiedProjects >>

\* case "explore_logs"
CallExploreLogs(c) ==
    /\ Arrives(c, "explore_logs")
    /\ \E args \in ArgsOf("explore_logs") :
         LET p == Prepared("explore_logs", args)
         IN  Update(c, IF ~p.ok THEN p.call
                       ELSE Issue(p.call, "getEntries", p.call.targetProject, "getEntries"))
    /\ UNCHANGED << activeProjectId, defaultProject, lastSelected, pipelined, metrics, health, verifiedProjects >>

\* Variant of FetchLogsResume in which fetchLogs sends its request a second
\* time when the first attempt fails.
FetchLogsResumeRetry(c) ==
    /\ Resumes(c, "getEntries")
    /\ \/ \E m \in ProviderFailures :
            Update(c, IF Len(calls[c].invoked) < 2
                      THEN Issue(calls[c], "getEntries", calls[c].targetProject, "getEntries")
                      ELSE Caught(Failed(calls[c], m), Wrapped("Cloud Logging API Error: ", m)))
       \/ Update(c, Returned(calls[c], <<"json">>,
                             [ project |-> calls[c].targetProject ]))
    /\ UNCHANGED << activeProjectId, defaultProject, lastSelected, pipelined, metrics, health, verifiedProjects >>

\* getEntries answers.
FetchLogsResume(c) ==
    /\ Resumes(c, "getEntries")
    /\ \/ \E m \in ProviderFailures :
            Update(c, Caught(Failed(calls[c], m), Wrapped("Cloud Logging API Error: ", m)))
       \/ Update(c, Returned(calls[c], <<"json">>,
                             [ project |-> calls[c].targetProject ]))
    /\ UNCHANGED << activeProjectId, defaultProject, lastSelected, pipelined, metrics, health, verifiedProjects >>

\* Variant of manageResource without the two refusals: the action is cast to
\* "start" | "stop" for an instance, and a service is restarted whatever
\* the action.
manageResourceUnchecked(call, resourceType, action) ==
    IF resourceType = "gce"
    THEN Issue(call, IF action = "start" THEN "compute.start" ELSE "compute.stop",
               call.targetProject, "manageGceInstance")
    ELSE Issue(call, "run.getService", call.targetProject, "getService")

\* The body of case "manage_resource" after ensureProject: the combinations
\* the tool refuses throw before any request is sent.
manageResource(call, resourceType, action) ==
    IF resourceType = "gce"
    THEN IF action = "restart"
         THEN Caught(call, GceRestartMessage)
         ELSE Issue(call, IF action = "start" THEN "compute.start" ELSE "compute.stop",
                    call.targetProject, "manageGceInstance")
    ELSE IF action # "restart"
         THEN Caught(call, RunOnlyRestartMessage)
         ELSE Issue(call, "run.getService", call.targetProject, "getService")

\* case "manage_resource"
CallManageResource(c) ==
    /\ Arrives(c, "manage_resource")
    /\ \E args \in ArgsOf("manage_resource") :
         LET p == Prepared("manage_resource", args)
         IN  Update(c, IF ~p.ok THEN p.call
                       ELSE manageResource(p.call, args.resourceType, args.action))
    /\ UNCHANGED << activeProjectId, defaultProject, lastSelected, pipelined, metrics, health, verifiedProjects >>

\* computeClient.start or computeClient.stop answers.
ManageGceInstanceResume(c) ==
    /\ Resumes(c, "manageGceInstance")
    /\ \/ \E m \in ProviderFailures :
            Update(c, Caught(Failed(calls[c], m), Wrapped("GCP Compute API Error: ", m)))
       \/ Update(c, Returned(calls[c], <<"json">>,
                             [ status |-> "Operation triggered",
                               action |-> calls[c].args.action ]))
    /\ UNCHANGED << activeProjectId, defaultProject, lastSelected, pipelined, metrics, health, verifiedProjects >>

\* restartCloudRunService: getService answers, then updateService is sent.
GetServiceResume(c) ==
    /\ Resumes(c, "getService")
    /\ \/ \E m \in ProviderFailures :
            Update(c, Caught(Failed(calls[c], m), Wrapped("GCP Cloud Run API Error: ", m)))
       \/ Update(c, Issue(calls[c], "run.updateService",
                          calls[c].targetProject, "updateService"))
    /\ UNCHANGED << activeProjectId, defaultProject, lastSelected, pipelined, metrics, health, verifiedProjects >>

\* updateService answers.
UpdateServiceResume(c) ==
    /\ Resumes(c, "updateService")
    /\ \/ \E m \in ProviderFailures :
            Update(c, Caught(Failed(calls[c], m), Wrapped("GCP Cloud Run API Error: ", m)))
       \/ Update(c, Returned(calls[c], <<"json">>,
                             [ status |-> "Restart triggered (new revision created)" ]))
    /\ UNCHANGED << activeProjectId, defaultProject, lastSelected, pipelined, metrics, health, verifiedProjects >>

\* case "audit_security_findings"
CallAuditSecurityFindings(c) ==
    /\ Arrives(c, "audit_security_findings")
    /\ \E args \in ArgsOf("audit_security_findings") :
         LET p == Prepared("audit_security_findings", args)
         IN  Update(c, IF ~p.ok THEN p.call
                       ELSE Issue(p.call, "listFindings", p.call.targetProject, "listFindings"))
    /\ UNCHANGED << activeProjectId, defaultProject, lastSelected, pipelined, metrics, health, verifiedProjects >>

\* listFindings answers; a failure that says the service is not enabled or
\* denied is replaced by a set-up hint.
SecurityFindingsResume(c) ==
    /\ Resumes(c, "listFindings")
    /\ \/ \E m \in ProviderFailures :
            Update(c, Caught(Failed(calls[c], m),
                IF Includes(m, "not enabled") \/ Includes(m, "PERMISSION_DENIED")
                THEN <<"Security Command Center is not enabled or accessible for project ",
                       calls[c].targetProject>>
                ELSE Wrapped("GCP SCC API Error: ", m)))
       \/ Update(c, Returned(calls[c], <<"json">>,
                             [ project |-> calls[c].targetProject ]))
    /\ UNCHANGED << activeProjectId, defaultProject, lastSelected, pipelined, metrics, health, verifiedProjects >>

RECOMMENDERS ==
    << "google.compute.instance.IdleResourceRecommendation",
       "google.compute.instance.MachineTypeRecommendation",
       "google.cloud.billing.CostInsight",
       "google.resourcemanager.project.ServiceLimitRecommendation" >>

\* case "get_optimization_recommendations": getRecommendations asks the
\* first recommender.
CallGetOptimizationRecommendations(c) ==
    /\ Arrives(c, "get_optimization_recommendations")
    /\ \E args \in ArgsOf("get_optimization_recommendations") :
         LET p == Prepared("get_optimization_recommendations", args)
         IN  Update(c, IF ~p.ok THEN p.call
                       ELSE Issue([ p.call EXCEPT !.step = 1 ], "listRecommendations",
                                  p.call.targetProject, "getRecommendations"))
    /\ UNCHANGED << activeProjectId, defaultProject, lastSelected, pipelined, metrics, health, verifiedProjects >>

\* What a recommender answers with: a failure, or its list of up to
\* MaxRecommendations recommendations; one recommendation when calls
\* overlap.
RecommenderOutcomes ==
    ( IF pipelined THEN {} ELSE { [ failed |-> TRUE, count |-> 0 ] } )
    \cup { [ failed |-> FALSE, count |-> n ] :
             n \in IF pipelined THEN { 1 } ELSE 0..MaxRecommendations }

\* recommendations.map(rec => ({ recommenderId, ... })) for a list of n.
Mapped(recommenderId, n) ==
    [ k \in 1..n |-> [ recommenderId |-> recommenderId, item |-> k ] ]

\* Variant of RecommendationsResume in which the failure of a recommender
\* is rethrown and ends the operation.
RecommendationsResumeAbort(c) ==
    /\ Resumes(c, "getRecommendations")
    /\ \E outcome \in RecommenderOutcomes :
         LET recommenderId == RECOMMENDERS[calls[c].step]
             results == IF outcome.failed THEN calls[c].results
                        ELSE calls[c].results \o Mapped(recommenderId, outcome.count)
             call == [ calls[c] EXCEPT
                         !.results = results,
                         !.categories = Append(@, [ recommenderId |-> recommenderId,
                                                    outcome |-> outcome ]) ]
         IN  Update(c, IF outcome.failed
                       THEN Caught(call, <<"GCP Recommender Error: ", "UNAVAILABLE">>)
                       ELSE IF call.step < Len(RECOMMENDERS)
                       THEN Issue([ call EXCEPT !.step = @ + 1 ], "listRecommendations",
                                  call.targetProject, "getRecommendations")
                       ELSE Returned(call, <<"json">>,
                                     [ project |-> call.targetProject,
                                       count |-> Len(results),
                                       recommendations |-> results ]))
    /\ UNCHANGED << activeProjectId, defaultProject, lastSelected, pipelined, metrics, health, verifiedProjects >>

\* One recommender answers: its recommendations are mapped and pushed onto
\* results, a failure is logged and skipped; then the next recommender is
\* asked, or the handler answers with what was collected.
RecommendationsResume(c) ==
    /\ Resumes(c, "getRecommendations")
    /\ \E outcome \in RecommenderOutcomes :
         LET recommenderId == RECOMMENDERS[calls[c].step]
             results == IF outcome.failed THEN calls[c].results
                        ELSE calls[c].results \o Mapped(recommenderId, outcome.count)
             call == [ calls[c] EXCEPT
                         !.results = results,
                         !.categories = Append(@, [ recommenderId |-> recommenderId,
                                                    outcome |-> outcome ]) ]
         IN  Update(c, IF call.step < Len(RECOMMENDERS)
                       THEN Issue([ call EXCEPT !.step = @ + 1 ], "listRecommendations",
                                  call.targetProject, "getRecommendations")
                       ELSE Returned(call, <<"json">>,
                                     [ project |-> call.targetProject,
                                       count |-> Len(results),
                                       recommendations |-> results ]))
    /\ UNCHANGED << activeProjectId, defaultProject, lastSelected, pipelined, metrics, health, verifiedProjects >>

\* case "check_quota_status"
CallCheckQuotaStatus(c) ==
    /\ Arrives(c, "check_quota_status")
    /\ \E args \in ArgsOf("check_quota_status") :
         LET p == Prepared("check_quota_status", args)
         IN  Update(c, IF ~p.ok THEN p.call
                       ELSE Issue(p.call, "queryTimeSeries", p.call.targetProject,
                                  "getQuotaStatus"))
    /\ UNCHANGED << activeProjectId, defaultProject, lastSelected, pipelined, metrics, health, verifiedProjects >>

\* The quota query answers.
QuotaStatusResume(c) ==
    /\ Resumes(c, "getQuotaStatus")
    /\ \/ \E m \in ProviderFailures :
            Update(c, Caught(Failed(calls[c], m), Wrapped("GCP Monitoring Quota Error: ", m)))
       \/ Update(c, Returned(calls[c], <<"json">>,
                             [ project |-> calls[c].targetProject ]))
    /\ UNCHANGED << activeProjectId, defaultProject, lastSelected, pipelined, metrics, health, verifiedProjects >>

\* case "generate_architecture_diagram": generateDiagram lists the Cloud
\* Run services first.
CallGenerateArchitectureDiagram(c) ==
    /\ Arrives(c, "generate_architecture_diagram")
    /\ \E args \in ArgsOf("generate_architecture_diagram") :
         LET p == Prepared("generate_architecture_diagram", args)
         IN  Update(c, IF ~p.ok THEN p.call
                       ELSE Issue(p.call, "run.listServices", p.call.targetProject,
                                  "listServices"))
    /\ UNCHANGED << activeProjectId, defaultProject, lastSelected, pipelined, metrics, health, verifiedProjects >>

\* listServices answers with some services; the instances are listed next.
ListServicesResume(c) ==
    /\ Resumes(c, "listServices")
    /\ \/ \E m \in ProviderFailures :
            Update(c, Caught(Failed(calls[c], m), Wrapped("GCP Architecture Discovery Error: ", m)))
       \/ \E services \in 0..1 :
            Update(c, Issue([ calls[c] EXCEPT !.step = services ],
                            "compute.aggregatedList", calls[c].targetProject,
                            "aggregatedList"))
    /\ UNCHANGED << activeProjectId, defaultProject, lastSelected, pipelined, metrics, health, verifiedProjects >>

\* Variant of AggregatedListResume in which generateDiagram throws when it
\* finds no resource.
AggregatedListResumeStrict(c) ==
    /\ Resumes(c, "aggregatedList")
    /\ \/ \E m \in ProviderFailures :
            Update(c, Caught(Failed(calls[c], m), Wrapped("GCP Architecture Discovery Error: ", m)))
       \/ \E instances \in 0..1 :
            Update(c, IF calls[c].step + instances > 0
                      THEN Returned(calls[c],
                                    <<"Architecture Diagram for ", calls[c].targetProject>>,
                                    <<>>)
                      ELSE Caught(calls[c], Wrapped("GCP Architecture Discovery Error: ",
                               <<"No supported resources found to generate a diagram.">>)))
    /\ UNCHANGED << activeProjectId, defaultProject, lastSelected, pipelined, metrics, health, verifiedProjects >>

\* aggregatedList answers: with no resource at all generateDiagram returns
\* a plain sentence, which the handler sends as it is.
AggregatedListResume(c) ==
    /\ Resumes(c, "aggregatedList")
    /\ \/ \E m \in ProviderFailures :
            Update(c, Caught(Failed(calls[c], m), Wrapped("GCP Architecture Discovery Error: ", m)))
       \/ \E instances \in 0..1 :
            Update(c, IF calls[c].step + instances > 0
                      THEN Returned(calls[c],
                                    <<"Architecture Diagram for ", calls[c].targetProject>>,
                                    <<>>)
                      ELSE Returned(calls[c],
                                    <<"No supported resources found to generate a diagram.">>,
                                    <<>>))
    /\ UNCHANGED << activeProjectId, defaultProject, lastSelected, pipelined, metrics, health, verifiedProjects >>

\* ---------------------------------------------------------- specifications
Next ==
    \E c \in Calls :
        \/ CallListProjects(c)
        \/ CallSetActiveProject(c)
        \/ CallTestIamIdentity(c)
        \/ CallGetServiceHealth(c)
        \/ CallGetCloudCostBreakdown(c)
        \/ CallTriggerDeployment(c)
        \/ CallGetCiPipelineStatus(c)
        \/ CallExploreLogs(c)
        \/ CallManageResource(c)
        \/ CallAuditSecurityFindings(c)
        \/ CallGetOptimizationRecommendations(c)
        \/ CallCheckQuotaStatus(c)
        \/ CallGenerateArchitectureDiagram(c)
        \/ CallUnknownTool(c)
        \/ ListProjectsResume(c)
        \/ GetIdentityResume(c)
        \/ TestIamPermissionsResume(c)
        \/ FetchMetricsResume(c)
        \/ BillingStatusResume(c)
        \/ FetchCostDataResume(c)
        \/ CreateBuildResume(c)
        \/ ListBuildsResume(c)
        \/ FetchLogsResume(c)
        \/ ManageGceInstanceResume(c)
        \/ GetServiceResume(c)
        \/ UpdateServiceResume(c)
        \/ SecurityFindingsResume(c)
        \/ RecommendationsResume(c)
        \/ QuotaStatusResume(c)
        \/ ListServicesResume(c)
        \/ AggregatedListResume(c)
        \/ Respond(c)

\* The reference behaviour: one call is served from start to finish before
\* the next one begins.
InitSerial == Init /\ ~pipelined

Spec == InitSerial /\ [][Next]_vars

\* Calls are served as they arrive and interleave at their suspension points.
InitInterleaved == Init /\ pipelined

SpecInterleaved == InitInterleaved /\ [][Next]_vars

\* ------------------------------------------------------------ HealthService
\* Finite metrics are integers: cpuUsage and podHealth in percent, latencyP95
\* in milliseconds, errorRate in thousandths.  A running score is kept in
\* twentieths of a point, the finest step any deduction takes.
MaxSteps == 2

\* x > n, x < n, x >= n and x <= n of JavaScript: false when x is NaN.
GreaterThan(x, n) == x.kind = "Infinity" \/ ( x.kind = "finite" /\ x.v > n )
LessThan(x, n) == x.kind = "-Infinity" \/ ( x.kind = "finite" /\ x.v < n )
AtLeast(x, n) == x.kind = "Infinity" \/ ( x.kind = "finite" /\ x.v >= n )
AtMost(x, n) == x.kind = "-Infinity" \/ ( x.kind = "finite" /\ x.v <= n )

\* score -= deduction, where the deduction is positive: infinite when the
\* metric x is, and -Infinity stays -Infinity.
Subtract(score, x, deduction) ==
    IF score.kind = "finite" /\ x.kind = "finite"
    THEN Finite(score.v - deduction)
    ELSE MinusInfinity

\* Math.round of a score in twentieths: the nearest integer, a half going up.
MathRound(score) ==
    IF score.kind = "finite" THEN Finite((score.v + 10) \div 20) ELSE score

\* Math.min(n, x) and Math.max(n, x): NaN when x is NaN.
MathMin(n, x) ==
    CASE x.kind = "NaN"       -> NaN
      [] x.kind = "Infinity"  -> Finite(n)
      [] x.kind = "-Infinity" -> MinusInfinity
      [] OTHER                -> Finite(IF x.v < n THEN x.v ELSE n)

MathMax(n, x) ==
    CASE x.kind = "NaN"       -> NaN
      [] x.kind = "Infinity"  -> PlusInfinity
      [] x.kind = "-Infinity" -> Finite(n)
      [] OTHER                -> Finite(IF x.v > n THEN x.v ELSE n)

\* The running score after the four deductions, errorRate counting above
\* `threshold` thousandths at `perFive` twentieths of a point each
\* five thousandths.
Deducted(m, threshold, perFive) ==
    LET start == Finite(100 * 20)
        cpu == IF GreaterThan(m.cpuUsage, 80)
               THEN Subtract(start, m.cpuUsage, (m.cpuUsage.v - 80) * 10)
               ELSE start
        err == IF GreaterThan(m.errorRate, threshold)
               THEN Subtract(cpu, m.errorRate, (m.errorRate.v * perFive) \div 5)
               ELSE cpu
        lat == IF GreaterThan(m.latencyP95, 500)
               THEN Subtract(err, m.latencyP95, m.latencyP95.v - 500)
               ELSE err
    IN  IF LessThan(m.podHealth, 100)
        THEN Subtract(lat, m.podHealth, (100 - m.podHealth.v) * 2 * 20)
        ELSE lat

\* Variant of computeHealthScore without the final clamp.
computeHealthScoreUnclamped(m) == MathRound(Deducted(m, 10, 100))

\* computeHealthScore of the later revision: errorRate above 0.01 costs
\* errorRate * 100 * 10 points.
computeHealthScore(m) == MathMax(0, MathMin(100, MathRound(Deducted(m, 10, 100))))

\* computeHealthScore of the earlier revision: errorRate above 1 costs
\* errorRate * 10 points.
computeHealthScoreEarlier(m) == MathMax(0, MathMin(100, MathRound(Deducted(m, 1000, 1))))

\* getStatus(score)
getStatus(score) ==
    IF AtLeast(score, 90) THEN "HEALTHY"
    ELSE IF AtLeast(score, 70) THEN "DEGRADED"
    ELSE "CRITICAL"

\* The numbers a metric is drawn from: values below, at and above the
\* point where its deduction starts, and the three that are not finite.
NotFinite == { NaN, PlusInfinity, MinusInfinity }
CpuUsages == { Finite(0) } \cup { Finite(80 + 2 * k) : k \in 0..MaxSteps } \cup NotFinite
ErrorRates ==
    { Finite(0) } \cup { Finite(10 + 5 * k) : k \in 0..MaxSteps }
                  \cup { Finite(1000 + 500 * k) : k \in 0..MaxSteps } \cup NotFinite
Latencies == { Finite(0) } \cup { Finite(500 + 150 * k) : k \in 0..MaxSteps } \cup NotFinite
PodHealths == { Finite(105) } \cup { Finite(100 - 5 * k) : k \in 0..MaxSteps } \cup NotFinite

HealthMetrics ==
    [ cpuUsage : CpuUsages, errorRate : ErrorRates,
      latencyP95 : Latencies, podHealth : PodHealths ]

\* const score = healthService.computeHealthScore(metrics)
ComputeHealthScore ==
    /\ health.pc = "metrics"
    /\ health' = [ health EXCEPT !.pc = "score",
                                 !.score = computeHealthScore(metrics),
                                 !.earlier = computeHealthScoreEarlier(metrics) ]
    /\ UNCHANGED << activeProjectId, calls, defaultProject, lastSelected, pipelined,
                    verifiedProjects, metrics >>

\* const status = healthService.getStatus(score)
GetStatus ==
    /\ health.pc = "score"
    /\ health' = [ health EXCEPT !.pc = "status", !.status = getStatus(health.score) ]
    /\ UNCHANGED << activeProjectId, calls, defaultProject, lastSelected, pipelined,
                    verifiedProjects, metrics >>

\* The health service alone, handed any metrics.
InitHealth ==
    /\ defaultProject = ""
    /\ activeProjectId = defaultProject
    /\ calls = [ c \in Calls |-> IdleCall ]
    /\ lastSelected = Undefined
    /\ pipelined = FALSE
    /\ verifiedProjects = {}
    /\ metrics \in HealthMetrics
    /\ health = NoHealth

NextHealth == ComputeHealthScore \/ GetStatus

SpecHealth == InitHealth /\ [][NextHealth]_vars

\* ------------------------------------------------------------- properties
\* The text of the response the catch block builds for an error message.
ErrorText(message) == <<"Error: ">> \o message

Busy(c) == calls[c].pc # "idle"

Done(c) == calls[c].pc = "done"

Functional(c) == Busy(c) /\ calls[c].name \in SwitchCases

\* The provider operations a call has requested so far.
Ops(c) == { calls[c].invoked[i].op : i \in 1..Len(calls[c].invoked) }

\* C1: when the verification that set_active_project(P) performs raises (the
\* identity lookup, the target check or the batch permission check), the
\* active project after the call is the one before the call and the
\* response is an error.
C1_FailedSelectionKeepsProject ==
    \A c \in Calls :
        ( /\ Done(c)
          /\ calls[c].name = "set_active_project"
          /\ calls[c].args.wellFormed
          /\ ~calls[c].verified )
        => /\ activeProjectId = calls[c].activeAtStart
           /\ calls[c].resp.isError

C1_Witness ==
    \E c \in Calls :
        /\ Done(c)
        /\ calls[c].name = "set_active_project"
        /\ "testIamPermissions" \in Ops(c)
        /\ ~calls[c].verified
        /\ calls[c].args.projectId \in ProjectIds
        /\ calls[c].activeAtStart \in ProjectIds
        /\ calls[c].args.projectId # calls[c].activeAtStart

\* C2: a trigger_deployment call whose approval argument is false never
\* requests the creation of a build, whatever its service, its project
\* argument and the session.
C2_NoBuildWithoutApproval ==
    \A c \in Calls :
        ( /\ Busy(c)
          /\ calls[c].name = "trigger_deployment"
          /\ ~calls[c].args.approval )
        => "createBuild" \notin Ops(c)

C2_Witness ==
    \E c \in Calls :
        /\ Done(c)
        /\ calls[c].name = "trigger_deployment"
        /\ calls[c].args.wellFormed
        /\ ~calls[c].args.approval
        /\ calls[c].targetProject \in ProjectIds
        /\ calls[c].invoked = <<>>

\* C3 as stated: a trigger_deployment call with approval=false answers with
\* isError and the fixed safety message in every session state, a session
\* with no active project included.
C3_Original_SafetyMessageAlways ==
    \A c \in Calls :
        ( /\ Done(c)
          /\ calls[c].name = "trigger_deployment"
          /\ calls[c].args.wellFormed
          /\ ~calls[c].args.approval )
        => /\ calls[c].resp.isError
           /\ calls[c].resp.text = ErrorText(SafetyMessage)

\* C3 (amended): a trigger_deployment call with approval=false always
\* answers with isError; the text is the fixed safety message when a project
\* resolves (a non-empty project argument or a non-empty active project) and
\* the missing-project message when none does.
C3_SafetyMessageWhenProjectResolves ==
    \A c \in Calls :
        ( /\ Done(c)
          /\ calls[c].name = "trigger_deployment"
          /\ calls[c].args.wellFormed
          /\ ~calls[c].args.approval )
        => /\ calls[c].resp.isError
           /\ calls[c].resp.text =
                IF Truthy(calls[c].args.project) \/ calls[c].activeAtStart # ""
                THEN ErrorText(SafetyMessage)
                ELSE ErrorText(NoProjectMessage)

C3_Witness ==
    \E c \in Calls :
        /\ Done(c)
        /\ calls[c].name = "trigger_deployment"
        /\ calls[c].args.wellFormed
        /\ ~calls[c].args.approval
        /\ calls[c].args.project = Undefined
        /\ calls[c].activeAtStart \in ProjectIds
        /\ calls[c].resp.isError
        /\ calls[c].resp.text = ErrorText(SafetyMessage)

\* C4: project resolution: a non-empty explicit argument is the resolved
\* project whatever the session holds; otherwise a non-empty active project
\* is; otherwise the call fails with the missing-project error.
C4_ProjectResolution ==
    \A c \in Calls :
        ( Functional(c) /\ calls[c].args.wellFormed )
        => LET explicit == calls[c].args.project
               session  == calls[c].activeAtStart
           IN  IF explicit # Undefined /\ explicit # ""
               THEN calls[c].targetProject = explicit
               ELSE IF session # ""
               THEN calls[c].targetProject = session
               ELSE /\ Done(c)
                    /\ calls[c].resp.isError
                    /\ calls[c].resp.text = ErrorText(NoProjectMessage)

C4_Witness ==
    \E c \in Calls :
        /\ Functional(c)
        /\ calls[c].args.wellFormed
        /\ calls[c].args.project \in ProjectIds
        /\ calls[c].activeAtStart \in ProjectIds
        /\ calls[c].args.project # calls[c].activeAtStart
        /\ calls[c].targetProject = calls[c].args.project

\* C5: AND semantics of the permission gate: for every granted set and every
\* capability, the report's flag is true exactly when every permission the
\* capability requires was granted.
C5_CapabilityIffAllGranted ==
    \A c \in Calls :
        ( Done(c) /\ calls[c].name = "test_iam_identity" /\ calls[c].verified )
        => \A cap \in Range(CapabilityNames) :
              calls[c].resp.result.capabilities[cap]
                <=> ( Range(REQUIRED_PERMISSIONS[cap]) \subseteq calls[c].granted )

C5_Witness ==
    \E c \in Calls :
        /\ Done(c)
        /\ calls[c].name = "test_iam_identity"
        /\ calls[c].verified
        /\ calls[c].granted = { "monitoring.timeSeries.list", "bigquery.jobs.create" }
        /\ calls[c].resp.result.capabilities.health
        /\ ~calls[c].resp.result.capabilities.cost

\* The required permissions in the order of the table: health, cost,
\* deployment, billing.
DeclarationOrder ==
    << "monitoring.timeSeries.list", "bigquery.jobs.create", "bigquery.tables.list",
       "cloudbuild.builds.list", "resourcemanager.projects.get" >>

\* C6: missingPermissions is the required permissions that were not granted,
\* each once, in declaration order; with monitoring.timeSeries.list and
\* bigquery.jobs.create granted it is bigquery.tables.list,
\* cloudbuild.builds.list, resourcemanager.projects.get.
C6_MissingInDeclarationOrder ==
    \A c \in Calls :
        ( Done(c) /\ calls[c].name = "test_iam_identity" /\ calls[c].verified )
        => LET missing == calls[c].resp.result.missingPermissions
               NotGranted(p) == p \notin calls[c].granted
           IN  /\ missing = SelectSeq(DeclarationOrder, NotGranted)
               /\ \A i, j \in 1..Len(missing) : i # j => missing[i] # missing[j]
               /\ calls[c].granted = { "monitoring.timeSeries.list", "bigquery.jobs.create" }
                  => missing = << "bigquery.tables.list", "cloudbuild.builds.list",
                                  "resourcemanager.projects.get" >>

C6_Witness ==
    \E c \in Calls :
        /\ Done(c)
        /\ calls[c].name = "test_iam_identity"
        /\ calls[c].verified
        /\ calls[c].granted = { "monitoring.timeSeries.list", "bigquery.jobs.create" }
        /\ Len(calls[c].resp.result.missingPermissions) = 3

\* The combinations of resource type and action manage_resource refuses.
Refused(args) ==
    \/ args.resourceType = "gce" /\ args.action = "restart"
    \/ args.resourceType = "run" /\ args.action \in {"start", "stop"}

\* C7: manage_resource with (gce, restart), (run, start) or (run, stop)
\* answers with isError and a guidance message and requests neither an
\* instance start or stop nor a Cloud Run restart.  The message is the one of
\* the refused combination whenever a project resolves, and the
\* missing-project remediation otherwise.
C7_RefusedCombinations ==
    \A c \in Calls :
        ( /\ Busy(c)
          /\ calls[c].name = "manage_resource"
          /\ calls[c].args.wellFormed
          /\ Refused(calls[c].args) )
        => /\ Done(c)
           /\ calls[c].resp.isError
           /\ Ops(c) \cap { "compute.start", "compute.stop",
                            "run.getService", "run.updateService" } = {}
           /\ calls[c].resp.text =
                IF ~Truthy(calls[c].args.project) /\ calls[c].activeAtStart = ""
                THEN ErrorText(NoProjectMessage)
                ELSE IF calls[c].args.resourceType = "gce"
                THEN ErrorText(GceRestartMessage)
                ELSE ErrorText(RunOnlyRestartMessage)

C7_Witness ==
    \E c \in Calls :
        /\ Done(c)
        /\ calls[c].name = "manage_resource"
        /\ calls[c].args.resourceType = "run"
        /\ calls[c].args.action = "stop"
        /\ calls[c].targetProject \in ProjectIds
        /\ calls[c].resp.isError
        /\ calls[c].resp.text = ErrorText(RunOnlyRestartMessage)
        /\ calls[c].invoked = <<>>

\* C8: the names the tool listing returns are exactly the names the call
\* handler has a branch for: a listed name runs the branch of that name and
\* never the default branch, and a name that is not listed runs the default
\* branch; no name is listed twice.
C8_CatalogMatchesDispatch ==
    /\ \A i, j \in 1..Len(ToolListing) : i # j => ToolListing[i] # ToolListing[j]
    /\ \A name \in RequestNames \cup SwitchCases :
          name \in Range(ToolListing) <=> HandlerOf(name) # "default"
    /\ \A c \in Calls :
          Busy(c) =>
             /\ calls[c].name \in Range(ToolListing) <=> calls[c].handler # "default"
             /\ calls[c].handler # "default" => calls[c].handler = calls[c].name
             /\ calls[c].handler = "default" =>
                   /\ Done(c)
                   /\ calls[c].resp.isError
                   /\ calls[c].invoked = <<>>

C8_Witness ==
    \E c \in Calls :
        /\ Done(c)
        /\ calls[c].name = "generate_architecture_diagram"
        /\ calls[c].name \in Range(ToolListing)
        /\ calls[c].handler = "generate_architecture_diagram"
        /\ ~calls[c].resp.isError

\* C9: a functional tool called with valid arguments, no or an empty project
\* argument and no active project answers with isError and the instruction to
\* list the projects and select one, and requests nothing from a provider.
C9_NoProjectNoProvider ==
    \A c \in Calls :
        ( /\ Functional(c)
          /\ calls[c].args.wellFormed
          /\ calls[c].args.project \in { Undefined, "" }
          /\ calls[c].activeAtStart = "" )
        => /\ Done(c)
           /\ calls[c].resp.isError
           /\ calls[c].resp.text = ErrorText(NoProjectMessage)
           /\ calls[c].invoked = <<>>

C9_Witness ==
    \E c \in Calls :
        /\ Done(c)
        /\ calls[c].name = "get_service_health"
        /\ calls[c].args.wellFormed
        /\ calls[c].args.project = Undefined
        /\ calls[c].activeAtStart = ""
        /\ calls[c].resp.isError
        /\ calls[c].resp.text = ErrorText(NoProjectMessage)

\* C10: once a set_active_project(P) has succeeded, P is the active project
\* until the next one succeeds, and every request a functional call without a
\* project argument sends to its provider carries P; a call with an explicit
\* non-empty project Q sends Q instead.
C10_SelectedProjectIsUsed ==
    /\ lastSelected # Undefined => activeProjectId = lastSelected
    /\ \A c \in Calls :
          ( Functional(c) /\ lastSelected # Undefined )
          => \A i \in 1..Len(calls[c].invoked) :
                calls[c].invoked[i].project =
                   IF calls[c].args.project \in ProjectIds
                   THEN calls[c].args.project
                   ELSE lastSelected

C10_Witness ==
    \E c \in Calls :
        /\ Done(c)
        /\ calls[c].name = "get_ci_pipeline_status"
        /\ calls[c].args.project = Undefined
        /\ lastSelected \in ProjectIds
        /\ lastSelected # defaultProject
        /\ calls[c].invoked = << [ op |-> "listBuilds", project |-> lastSelected ] >>
        /\ ~calls[c].resp.isError

\* C11: a call whose tool name is not in the catalog answers with isError
\* and the text of the error "Unknown tool: {name}" (behind the "Error: "
\* every error response starts with), requests nothing from a provider and
\* leaves the active project as it was.
C11_UnknownToolReported ==
    \A c \in Calls :
        ( Done(c) /\ calls[c].name \notin Range(ToolListing) )
        => /\ calls[c].resp.isError
           /\ calls[c].resp.text = ErrorText(UnknownToolMessage(calls[c].name))
           /\ calls[c].invoked = <<>>
           /\ activeProjectId = calls[c].activeAtStart

\* The labels a call is suspended at while a provider request is pending.
SuspensionPoints ==
    { "searchProjects", "getIdentity", "testIamPermissions", "fetchMetrics",
      "getBillingAccountStatus", "fetchCostData", "createBuild", "listBuilds",
      "getEntries", "manageGceInstance", "getService", "updateService",
      "listFindings", "getRecommendations", "getQuotaStatus", "listServices",
      "aggregatedList" }

\* C12: every call ends with a response: a call that is being served is
\* waiting for a provider or has its response, and whenever its handling
\* raised an error (arguments that fail validation, no project, an unknown
\* tool, a provider or authentication failure) the response has isError and
\* a text; no call ends in any other way.
C12_EveryFailureIsAResponse ==
    \A c \in Calls :
        Busy(c) =>
           /\ calls[c].pc \in SuspensionPoints \cup { "done" }
           /\ ~calls[c].args.wellFormed => Done(c)
           /\ calls[c].handler = "default" => Done(c)
           /\ calls[c].providerError # <<>> => Done(c)
           /\ ( \/ ~calls[c].args.wellFormed
                \/ calls[c].handler = "default"
                \/ calls[c].providerError # <<>>
                \/ calls[c].raised # <<>> )
              => /\ calls[c].raised # <<>>
                 /\ calls[c].resp.isError
                 /\ calls[c].resp.text # <<>>

C12_Witness ==
    \E c \in Calls :
        /\ Done(c)
        /\ calls[c].name = "manage_resource"
        /\ ~calls[c].args.wellFormed
        /\ calls[c].args.project = Undefined
        /\ calls[c].activeAtStart = ""
        /\ calls[c].raised = ValidationMessage
        /\ calls[c].resp.isError

\* text carries message m: the fragments of m occur in it, in order and
\* next to each other.
Carries(text, m) ==
    \E i \in 0..(Len(text) - Len(m)) : SubSeq(text, i + 1, i + Len(m)) = m

\* C13: a call whose provider operation failed answers with isError, and
\* with the fixed re-authentication instruction when the failure's message
\* contains "Could not load the default credentials", and with a text that
\* carries the failure's message otherwise; a call that failed for another
\* reason (unknown tool, validation, no project) never answers with the
\* re-authentication instruction.
C13_AuthenticationClassification ==
    \A c \in Calls :
        Done(c) =>
           /\ ( calls[c].raised # <<>> /\ calls[c].invoked # <<>> ) =>
                 /\ calls[c].resp.isError
                 /\ IF Includes(calls[c].raised, CredsText)
                    THEN calls[c].resp.text = AuthFailedText
                    ELSE Carries(calls[c].resp.text, calls[c].raised)
           /\ calls[c].invoked = <<>> => calls[c].resp.text # AuthFailedText

\* The call in slot c ends in this step.
Completes(c) == calls[c].pc # "done" /\ calls'[c].pc = "done"

\* C14: the active project changes only in the step in which a
\* set_active_project call ends without error; a step in which any other
\* call ends (a functional call with an explicit project, list_projects,
\* test_iam_identity) or in which a call ends with isError leaves it as it
\* was, and so does every other step.
C14_OnlySelectionChangesProject ==
    [][ /\ \A c \in Calls :
              ( /\ Completes(c)
                /\ \/ calls'[c].name # "set_active_project"
                   \/ calls'[c].resp.isError )
              => activeProjectId' = activeProjectId
        /\ activeProjectId' # activeProjectId
           => \E c \in Calls :
                 /\ Completes(c)
                 /\ calls'[c].name = "set_active_project"
                 /\ ~calls'[c].resp.isError ]_vars

C14_Witness ==
    \E c \in Calls :
        /\ Done(c)
        /\ calls[c].name = "explore_logs"
        /\ ~calls[c].resp.isError
        /\ calls[c].args.project \in ProjectIds
        /\ calls[c].activeAtStart \in ProjectIds
        /\ calls[c].args.project # calls[c].activeAtStart
        /\ activeProjectId = calls[c].activeAtStart

\* C15: the active project is never cleared: a step that starts with a
\* non-empty active project ends with a non-empty one, and the identifier a
\* set_active_project stores is non-empty.
C15_NeverCleared ==
    [][ /\ activeProjectId # "" => activeProjectId' # ""
        /\ \A c \in Calls :
              ( /\ Completes(c)
                /\ calls'[c].name = "set_active_project"
                /\ ~calls'[c].resp.isError )
              => activeProjectId' # "" ]_vars

\* A test_iam_identity call with valid arguments, no (or an empty) project
\* argument, made while the session had no active project, has ended.
IdentityTestWithoutProject(c) ==
    /\ Done(c)
    /\ calls[c].name = "test_iam_identity"
    /\ calls[c].args.wellFormed
    /\ calls[c].args.project \in { Undefined, "" }
    /\ calls[c].activeAtStart = ""

\* C16 as stated: test_iam_identity with no project argument and no active
\* project does not fail for lack of a project: unless a provider request
\* failed, it answers with a permission report and without isError.
C16_Original_ReportWithoutProject ==
    \A c \in Calls :
        ( IdentityTestWithoutProject(c) /\ calls[c].providerError = <<>> )
        => /\ ~calls[c].resp.isError
           /\ calls[c].verified

\* C16 (amended): such a call never answers with the missing-project error
\* of the functional tools and always asks for the identity; it checks the
\* project of the ambient credentials and answers with the report for that
\* project when the identity lookup and the batch check answer; when the
\* credentials have no project either, it answers with isError and
\* "Project ID is required for permission check.".
C16_ReportForCredentialsProject ==
    \A c \in Calls :
        IdentityTestWithoutProject(c)
        => /\ calls[c].resp.text # ErrorText(NoProjectMessage)
           /\ Len(calls[c].invoked) >= 1
           /\ calls[c].invoked[1].op = "getIdentity"
           /\ calls[c].iamProject = ""
           /\ IF calls[c].verified
              THEN /\ ~calls[c].resp.isError
                   /\ calls[c].iamTarget \in ProjectIds
                   /\ calls[c].invoked[2] =
                         [ op |-> "testIamPermissions", project |-> calls[c].iamTarget ]
                   /\ calls[c].resp.result =
                         PermissionReport(calls[c].iamTarget, calls[c].granted)
              ELSE calls[c].resp.isError
           /\ ( ~calls[c].verified /\ calls[c].providerError = <<>> )
              => /\ calls[c].resp.text = ErrorText(ProjectRequiredMessage)
                 /\ Len(calls[c].invoked) = 1

C16_Witness ==
    \E c \in Calls :
        /\ IdentityTestWithoutProject(c)
        /\ calls[c].args.project = Undefined
        /\ calls[c].verified
        /\ ~calls[c].resp.isError
        /\ calls[c].resp.result.projectId \in ProjectIds

\* C17: list_projects needs no selected project: whatever the session
\* holds, the call asks the provider for the accessible projects and never
\* answers with the missing-project error; when the enumeration answers, the
\* response is not an error and reports the session's active project, as
\* "NONE" when the session is empty.
C17_ListProjectsNeedsNoProject ==
    \A c \in Calls :
        ( Busy(c) /\ calls[c].name = "list_projects" )
        => /\ calls[c].invoked = << [ op |-> "searchProjects", project |-> Undefined ] >>
           /\ Done(c) =>
                 /\ calls[c].resp.text # ErrorText(NoProjectMessage)
                 /\ calls[c].resp.isError <=> calls[c].providerError # <<>>
                 /\ ~calls[c].resp.isError =>
                       calls[c].resp.result.activeProjectId =
                          IF calls[c].activeAtStart = "" THEN "NONE"
                          ELSE calls[c].activeAtStart

C17_Witness ==
    \E c \in Calls :
        /\ Done(c)
        /\ calls[c].name = "list_projects"
        /\ calls[c].activeAtStart = ""
        /\ ~calls[c].resp.isError
        /\ calls[c].resp.result.activeProjectId = "NONE"

\* A call that ran verifyPermissions has ended.
VerifyCalled(c) ==
    /\ Done(c)
    /\ calls[c].handler \in { "set_active_project", "test_iam_identity" }
    /\ calls[c].args.wellFormed

\* The batch check was sent and the provider failed it.
CheckFailed(c) ==
    /\ calls[c].providerError # <<>>
    /\ Len(calls[c].invoked) = 2
    /\ calls[c].invoked[2].op = "testIamPermissions"

\* The identity lookup failed.
IdentityFailed(c) ==
    /\ calls[c].providerError # <<>>
    /\ calls[c].invoked = << [ op |-> "getIdentity", project |-> Undefined ] >>

\* Neither the argument nor the identity names a project.
NoTarget(c) ==
    /\ calls[c].providerError = <<>>
    /\ calls[c].invoked = << [ op |-> "getIdentity", project |-> Undefined ] >>
    /\ calls[c].iamProject = ""
    /\ calls[c].raised = ProjectRequiredMessage

\* What verifyPermissions reports when the batch check has answered: for an
\* empty granted set every capability is false and all five required
\* permissions are missing.
ReportWhenCheckAnswers(c) ==
    /\ ~CheckFailed(c)
    /\ calls[c].handler = "test_iam_identity" =>
          /\ ~calls[c].resp.isError
          /\ calls[c].resp.result = PermissionReport(calls[c].iamTarget, calls[c].granted)
          /\ calls[c].granted = {} =>
                /\ \A cap \in Range(CapabilityNames) :
                      ~calls[c].resp.result.capabilities[cap]
                /\ calls[c].resp.result.missingPermissions = DeclarationOrder

\* C18 as stated: verifyPermissions returns a report whenever the batch
\* check returns, and fails only when the check call itself fails.
C18_Original_FailsOnlyWhenCheckFails ==
    \A c \in Calls :
        VerifyCalled(c) =>
           /\ calls[c].verified => ReportWhenCheckAnswers(c)
           /\ ~calls[c].verified => CheckFailed(c)

\* C18 (amended): verifyPermissions returns a report whenever the batch
\* check returns, an empty granted set included, and fails exactly when the
\* identity lookup fails, when neither its argument nor the identity names
\* a project, or when the check call itself fails.
C18_VerifyFailures ==
    \A c \in Calls :
        VerifyCalled(c) =>
           /\ calls[c].verified => ReportWhenCheckAnswers(c)
           /\ ~calls[c].verified <=>
                 ( IdentityFailed(c) \/ NoTarget(c) \/ CheckFailed(c) )
           /\ ~calls[c].verified => calls[c].resp.isError

C18_Witness ==
    \E c \in Calls :
        /\ VerifyCalled(c)
        /\ calls[c].handler = "test_iam_identity"
        /\ calls[c].verified
        /\ calls[c].granted = {}
        /\ ~calls[c].resp.isError
        /\ Len(calls[c].resp.result.missingPermissions) = 5
        /\ ~calls[c].resp.result.capabilities.billing

\* The provider operations that deploy, start, stop or restart.
DestructiveOps == { "createBuild", "compute.start", "compute.stop", "run.updateService" }

\* C19: trigger_deployment's build creation and manage_resource's start,
\* stop and restart are requested only for a project for which
\* verifyPermissions has returned a report (in this call or in any earlier
\* call of the session).
C19_GateBeforeDestructiveOps ==
    \A c \in Calls :
        ( Busy(c) /\ calls[c].name \in { "trigger_deployment", "manage_resource" } )
        => \A i \in 1..Len(calls[c].invoked) :
              calls[c].invoked[i].op \in DestructiveOps
              => calls[c].invoked[i].project \in verifiedProjects

RECURSIVE Concatenated(_)
\* The recommendations of the recommenders that answered, in the order asked.
Concatenated(categories) ==
    IF categories = <<>> THEN <<>>
    ELSE LET first == Head(categories)
         IN  ( IF first.outcome.failed THEN <<>>
               ELSE [ k \in 1..first.outcome.count |->
                        [ recommenderId |-> first.recommenderId, item |-> k ] ] )
             \o Concatenated(Tail(categories))

\* C20: get_optimization_recommendations asks the four recommenders in
\* declaration order and goes on to the next one when one fails; once a
\* project resolves, the call never ends with isError, and its result is the
\* recommendations of the recommenders that answered, concatenated in that
\* order (empty when all four fail).
C20_SkipAndContinue ==
    \A c \in Calls :
        ( /\ Busy(c)
          /\ calls[c].name = "get_optimization_recommendations"
          /\ calls[c].args.wellFormed
          /\ calls[c].targetProject # Undefined )
        => /\ \A i \in 1..Len(calls[c].categories) :
                 calls[c].categories[i].recommenderId = RECOMMENDERS[i]
           /\ Len(calls[c].invoked) =
                 IF Done(c) THEN Len(calls[c].categories) ELSE Len(calls[c].categories) + 1
           /\ \A i \in 1..Len(calls[c].invoked) :
                 calls[c].invoked[i] =
                    [ op |-> "listRecommendations", project |-> calls[c].targetProject ]
           /\ Done(c) =>
                 /\ Len(calls[c].categories) = Len(RECOMMENDERS)
                 /\ ~calls[c].resp.isError
                 /\ calls[c].resp.result.recommendations = Concatenated(calls[c].categories)
                 /\ calls[c].resp.result.count = Len(calls[c].resp.result.recommendations)
                 /\ ( \A i \in 1..Len(RECOMMENDERS) : calls[c].categories[i].outcome.failed )
                    => calls[c].resp.result.recommendations = <<>>

C20_Witness ==
    \E c \in Calls :
        /\ Done(c)
        /\ calls[c].name = "get_optimization_recommendations"
        /\ Len(calls[c].categories) = 4
        /\ calls[c].categories[1].outcome = [ failed |-> FALSE, count |-> 1 ]
        /\ calls[c].categories[2].outcome.failed
        /\ calls[c].categories[3].outcome = [ failed |-> FALSE, count |-> 2 ]
        /\ calls[c].categories[4].outcome = [ failed |-> FALSE, count |-> 0 ]
        /\ ~calls[c].resp.isError
        /\ Len(calls[c].resp.result.recommendations) = 3
        /\ calls[c].resp.result.recommendations[2].recommenderId = RECOMMENDERS[3]

\* C22: the active project is the startup default, or a project that the
\* last successful set_active_project named and for which verifyPermissions
\* has returned a report of a check sent for that very project.
C22_ActiveProjectWasVerified ==
    \/ activeProjectId = defaultProject
    \/ /\ lastSelected = activeProjectId
       /\ activeProjectId \in verifiedProjects

Count(c, op) ==
    Cardinality({ i \in 1..Len(calls[c].invoked) : calls[c].invoked[i].op = op })

\* C25: a call that runs verifyPermissions sends at most one batch check,
\* and exactly one when the verification returns a report; the check is sent
\* for the target project, and its permission list holds every permission
\* of the four groups and no permission twice.
C25_OneBatchCheck ==
    \A c \in Calls :
        ( Busy(c) /\ calls[c].handler \in { "set_active_project", "test_iam_identity" } )
        => /\ Count(c, "testIamPermissions") <= 1
           /\ Count(c, "getIdentity") <= 1
           /\ Len(calls[c].invoked) <= 2
           /\ calls[c].verified => Count(c, "testIamPermissions") = 1
           /\ Count(c, "testIamPermissions") = 1
              => /\ calls[c].invoked[2] =
                       [ op |-> "testIamPermissions", project |-> calls[c].iamTarget ]
                 /\ calls[c].iamTarget \in ProjectIds
                 /\ calls[c].iamTarget = OrElse(calls[c].iamProject, calls[c].iamTarget)
                 /\ Range(calls[c].iamPermissions) =
                       UNION { Range(REQUIRED_PERMISSIONS[cap]) : cap \in Range(CapabilityNames) }
                 /\ \A i, j \in 1..Len(calls[c].iamPermissions) :
                       i # j => calls[c].iamPermissions[i] # calls[c].iamPermissions[j]

C25_Witness ==
    \E c \in Calls :
        /\ Done(c)
        /\ calls[c].handler = "set_active_project"
        /\ calls[c].verified
        /\ calls[c].args.projectId \in ProjectIds
        /\ calls[c].invoked =
              << [ op |-> "getIdentity", project |-> Undefined ],
                 [ op |-> "testIamPermissions", project |-> calls[c].args.projectId ] >>
        /\ Len(calls[c].iamPermissions) = 5

\* The provider requests a tool's code sends when nothing fails, one entry
\* per request written in the code, in order.
DeclaredSteps(c) ==
    LET h == calls[c].handler
    IN  IF h = "list_projects" THEN << "searchProjects" >>
        ELSE IF h \in { "set_active_project", "test_iam_identity" }
        THEN << "getIdentity", "testIamPermissions" >>
        ELSE IF h = "get_service_health"
        THEN << "queryTimeSeries", "queryTimeSeries", "queryTimeSeries" >>
        ELSE IF h = "get_cloud_cost_breakdown"
        THEN << "getBillingAccountStatus", "bigquery.query" >>
        ELSE IF h = "trigger_deployment" THEN << "createBuild" >>
        ELSE IF h = "get_ci_pipeline_status" THEN << "listBuilds" >>
        ELSE IF h = "explore_logs" THEN << "getEntries" >>
        ELSE IF h = "manage_resource"
        THEN IF calls[c].args.resourceType = "gce"
             THEN << IF calls[c].args.action = "start" THEN "compute.start"
                     ELSE "compute.stop" >>
             ELSE << "run.getService", "run.updateService" >>
        ELSE IF h = "audit_security_findings" THEN << "listFindings" >>
        ELSE IF h = "get_optimization_recommendations"
        THEN [ i \in 1..Len(RECOMMENDERS) |-> "listRecommendations" ]
        ELSE IF h = "check_quota_status" THEN << "queryTimeSeries" >>
        ELSE IF h = "generate_architecture_diagram"
        THEN << "run.listServices", "compute.aggregatedList" >>
        ELSE << >>

\* The requests a call has issued are the first ones of its declared steps:
\* no step's request is sent twice.
OncePerStep(c) ==
    /\ Len(calls[c].invoked) <= Len(DeclaredSteps(c))
    /\ \A i \in 1..Len(calls[c].invoked) : calls[c].invoked[i].op = DeclaredSteps(c)[i]

\* A provider operation of the call (a service method the handler awaits)
\* has failed: an error was raised after the call's first request.
OperationFailed(c) == calls[c].raised # <<>> /\ calls[c].invoked # <<>>

\* C26: nothing is retried: no step's request is sent twice, a failed
\* request is never sent again, and once a provider operation has failed the
\* call has ended with an error response.  (getRecommendations does not
\* fail when one of its recommenders does: it asks each recommender once and
\* goes on.)
C26_NoRetries ==
    \A c \in Calls :
        Busy(c) =>
           /\ OncePerStep(c)
           /\ calls[c].providerError # <<>> => OperationFailed(c)
           /\ OperationFailed(c) => ( Done(c) /\ calls[c].resp.isError )
           /\ calls[c].handler = "get_optimization_recommendations" =>
                 /\ ~OperationFailed(c)
                 /\ \A i \in 1..Len(calls[c].categories) :
                       calls[c].categories[i].recommenderId = RECOMMENDERS[i]
                 /\ Len(calls[c].invoked) <= Len(calls[c].categories) + 1

C26_Witness ==
    \E c \in Calls :
        /\ Done(c)
        /\ calls[c].name = "get_service_health"
        /\ calls[c].providerError = << "UNAVAILABLE" >>
        /\ Len(calls[c].invoked) = 2
        /\ calls[c].resp.isError

\* Every request the call's code writes down was sent and answered.
AllStepsAnswered(c) ==
    /\ calls[c].providerError = <<>>
    /\ Len(calls[c].invoked) = Len(DeclaredSteps(c))
    /\ Len(calls[c].invoked) >= 1

\* The service found nothing to report and threw: no billing rows, no build.
EmptyResult(c) ==
    \/ /\ calls[c].handler = "get_cloud_cost_breakdown"
       /\ calls[c].raised = << "GCP BigQuery Error: ", "No billing data found for project ",
                               calls[c].targetProject, " in the last 30 days." >>
    \/ /\ calls[c].handler = "get_ci_pipeline_status"
       /\ calls[c].raised = << "GCP Build History Error: ",
                               "No build history found for repo in project ",
                               calls[c].targetProject >>

\* C27: a response has isError exactly when the call ended with an error:
\* a call all of whose requests were answered, and whose service did not
\* throw for an empty result, answers without isError, and
\* generate_architecture_diagram answers without isError also when it found
\* no resource, with its plain sentence as the text.
C27_ErrorFlagIffFailure ==
    \A c \in Calls :
        Done(c) =>
           /\ calls[c].resp.isError <=> calls[c].raised # <<>>
           /\ ( AllStepsAnswered(c) /\ ~EmptyResult(c) ) => ~calls[c].resp.isError
           /\ ( /\ ~calls[c].resp.isError
                /\ calls[c].handler \notin { "default" } )
              => /\ AllStepsAnswered(c)
                 /\ calls[c].args.wellFormed
           /\ ( calls[c].handler = "generate_architecture_diagram" /\ AllStepsAnswered(c) )
              => calls[c].resp.text \in
                    { << "Architecture Diagram for ", calls[c].targetProject >>,
                      << "No supported resources found to generate a diagram." >> }

C27_Witness ==
    \E c \in Calls :
        /\ Done(c)
        /\ calls[c].name = "generate_architecture_diagram"
        /\ calls[c].step = 0
        /\ Len(calls[c].invoked) = 2
        /\ ~calls[c].resp.isError
        /\ calls[c].resp.text = << "No supported resources found to generate a diagram." >>

NoDeduction(m, threshold) ==
    /\ AtMost(m.cpuUsage, 80)
    /\ AtMost(m.errorRate, threshold)
    /\ AtMost(m.latencyP95, 500)
    /\ AtLeast(m.podHealth, 100)

IntegerInRange(score) == score.kind = "finite" /\ score.v \in 0..100

\* C30: for any metrics, computeHealthScore (either revision) returns an
\* integer from 0 to 100, and 100 when cpuUsage is at most 80, errorRate at
\* most the revision's threshold, latencyP95 at most 500 and podHealth at
\* least 100; getStatus answers HEALTHY for a score of 90 or more, DEGRADED
\* for 70 to 89 and CRITICAL below 70.
C30_HealthScoreBounds ==
    /\ health.pc \in { "score", "status" } =>
          /\ IntegerInRange(health.score)
          /\ IntegerInRange(health.earlier)
          /\ NoDeduction(metrics, 10) => health.score = Finite(100)
          /\ NoDeduction(metrics, 1000) => health.earlier = Finite(100)
    /\ health.pc = "status" =>
          /\ health.score.v >= 90 <=> health.status = "HEALTHY"
          /\ health.score.v \in 70..89 <=> health.status = "DEGRADED"
          /\ health.score.v < 70 <=> health.status = "CRITICAL"

C30_Witness ==
    /\ health.pc = "status"
    /\ metrics.cpuUsage = Finite(82)
    /\ metrics.errorRate = Finite(20)
    /\ metrics.latencyP95 = Finite(500)
    /\ metrics.podHealth = Finite(95)
    /\ health.score = Finite(69)
    /\ health.earlier = Finite(89)
    /\ health.status = "CRITICAL"

\* verifyPermissions returns its report to set_active_project call c in this
\* step.
VerificationReturns(c) ==
    /\ calls[c].handler = "set_active_project"
    /\ ~calls[c].verified
    /\ calls'[c].verified

\* C21: with calls interleaved at their provider requests, the step in which
\* a set_active_project's verification returns is the step of its write: the
\* call is answered and its projectId is the active project when the step
\* ends, so no other call runs, writes or reads in between; and the active
\* project takes a new value in such a step only, the value being that
\* call's projectId.
C21_VerifyThenWriteIsOneStep ==
    [][ /\ \A c \in Calls :
              VerificationReturns(c) =>
                 /\ calls'[c].pc = "done"
                 /\ ~calls'[c].resp.isError
                 /\ activeProjectId' = calls[c].args.projectId
                 /\ \A d \in Calls \ {c} : calls'[d] = calls[d]
        /\ activeProjectId' # activeProjectId =>
              \E c \in Calls :
                 /\ VerificationReturns(c)
                 /\ activeProjectId' = calls[c].args.projectId
      ]_vars

\* Two set_active_project calls overlap: one has verified and written its
\* project while the other, for a different project, is still verifying.
C21_Witness ==
    \E c, d \in Calls :
        /\ c # d
        /\ calls[c].handler = "set_active_project"
        /\ calls[d].handler = "set_active_project"
        /\ Done(c) /\ calls[c].verified
        /\ calls[d].pc = "testIamPermissions"
        /\ calls[d].args.projectId # calls[c].args.projectId
        /\ calls[c].activeAtStart # calls[c].args.projectId
        /\ activeProjectId = calls[c].args.projectId

\* What list_projects reports for an active project.
Reported(active) == OrElse(active, "NONE")

\* C24: a call that uses or reports the active project works with the value
\* it had when the call started: list_projects reports that value, and
\* test_iam_identity and the functional tools resolve their target
\* project from it.
C24_ReadAtStartOfCall ==
    \A c \in Calls :
        /\ ( Done(c) /\ calls[c].handler = "list_projects" /\ ~calls[c].resp.isError )
           => calls[c].resp.result.activeProjectId = Reported(calls[c].activeAtStart)
        /\ ( calls[c].handler = "test_iam_identity" /\ calls[c].invoked # <<>> )
           => calls[c].targetProject = OrElse(calls[c].args.project, calls[c].activeAtStart)
        /\ ( Functional(c) /\ calls[c].invoked # <<>> )
           => calls[c].targetProject = OrElse(calls[c].args.project, calls[c].activeAtStart)

\* C29: get_cloud_cost_breakdown resolves its target project once, on
\* arrival; it asks for the billing status and then for the cost data, both
\* for that project, also when the active project has changed meanwhile;
\* when getBillingAccountStatus fails the cost query is never sent and the
\* call answers with isError.
C29_CostBreakdownKeepsItsProject ==
    \A c \in Calls :
        calls[c].handler = "get_cloud_cost_breakdown" =>
           /\ calls[c].invoked # <<>> =>
                 calls[c].targetProject = OrElse(calls[c].args.project, calls[c].activeAtStart)
           /\ \A i \in 1..Len(calls[c].invoked) :
                 /\ calls[c].invoked[i].project = calls[c].targetProject
                 /\ calls[c].invoked[i].op = << "getBillingAccountStatus", "bigquery.query" >>[i]
           /\ Len(calls[c].invoked) <= 2
           /\ ( calls[c].providerError # <<>> /\ Len(calls[c].invoked) = 1 )
              => /\ Done(c)
                 /\ calls[c].resp.isError
                 /\ "bigquery.query" \notin Ops(c)

\* The cost query is sent for the project resolved on arrival after another
\* call has switched the active project.
C29_Witness ==
    \E c \in Calls :
        /\ calls[c].handler = "get_cloud_cost_breakdown"
        /\ calls[c].args.project = Undefined
        /\ Len(calls[c].invoked) = 2
        /\ calls[c].targetProject = calls[c].activeAtStart
        /\ activeProjectId # calls[c].activeAtStart
        /\ calls[c].invoked[2].project = calls[c].activeAtStart

====
